---- MODULE Spec2Model ----
(***************************************************************************)
(* Model of the request execution engine of ddq (src/src/datadog.rs):      *)
(* DatadogClient::raw and DatadogClient::send_json with its retry loop,    *)
(* the backoff computation, the Retry-After parser, the error-body         *)
(* truncation and the error presenter (src/src/app_error.rs), with the     *)
(* entry points query_logs, query_metrics, query_events and raw and the    *)
(* validation of Config::from_cli (src/src/config.rs) in front of them.    *)
(*                                                                         *)
(* Strings are sequences of one-character strings.  A response body is a   *)
(* sequence of runs [c |-> character, n |-> repetitions]; a character has  *)
(* the UTF-8 byte width Width(c), so byte lengths and character            *)
(* boundaries are computed exactly without storing 2048 elements.          *)
(* Option<T> is <<>> (None) or <<x>> (Some(x)).                            *)
(***************************************************************************)
EXTENDS Integers, Sequences, FiniteSets, TLC

VARIABLES cli, retry, base_url, req, pc, attempt, response, delay, sends,
          sleeps, sent, last, outcome

vars == <<cli, retry, base_url, req, pc, attempt, response, delay, sends,
          sleeps, sent, last, outcome>>

----------------------------------------------------------------------------
(* Bounds of the model *)

\* largest max_retries explored by the retry loop
MaxRetries == 2
\* largest attempt index explored for the backoff computation alone
MaxBackoffAttempts == 18

\* The machine word of the model.  The code computes delays in u64 with
\* saturating multiplication; TLC's integers are 32-bit, so the ceiling of
\* the saturating arithmetic is the largest integer TLC holds.
WordMax == 2147483647

----------------------------------------------------------------------------
(* Option and small helpers *)

None == <<>>
Some(x) == <<x>>

Min(a, b) == IF a <= b THEN a ELSE b

starts_with(s, p) == Len(s) >= Len(p) /\ SubSeq(s, 1, Len(p)) = p

RECURSIVE Pow2(_)
Pow2(k) == IF k = 0 THEN 1 ELSE 2 * Pow2(k - 1)

\* u64::saturating_mul at the word of the model
saturating_mul(a, b) ==
    IF b = 0 \/ a = 0 THEN 0
    ELSE IF a > WordMax \div b THEN WordMax
    ELSE a * b

----------------------------------------------------------------------------
(* Texts: response bodies as runs of characters *)

Run(c, n) == <<[c |-> c, n |-> n]>>

\* UTF-8 width of the characters used by the bodies of the model
Width(c) == CASE c = "U+00E9" -> 2
              [] c = "U+20AC" -> 3
              [] OTHER -> 1

IsWhitespace(c) == c \in {" ", "\n", "\t"}

\* str::len: the length in bytes
RECURSIVE len(_)
len(text) ==
    IF text = <<>> THEN 0
    ELSE Width(Head(text).c) * Head(text).n + len(Tail(text))

\* str::is_char_boundary(k)
RECURSIVE is_char_boundary(_, _)
is_char_boundary(text, k) ==
    IF k = 0 THEN TRUE
    ELSE IF text = <<>> THEN FALSE
    ELSE LET w == Width(Head(text).c)
             bytes == w * Head(text).n
         IN  IF k >= bytes THEN is_char_boundary(Tail(text), k - bytes)
             ELSE k % w = 0

\* &text[..k] for a k that is a character boundary
RECURSIVE slice_to(_, _)
slice_to(text, k) ==
    IF k = 0 \/ text = <<>> THEN <<>>
    ELSE LET w == Width(Head(text).c)
             bytes == w * Head(text).n
         IN  IF k >= bytes THEN <<Head(text)>> \o slice_to(Tail(text), k - bytes)
             ELSE Run(Head(text).c, k \div w)

is_empty_untrimmed(text) == text = <<>>

\* str::trim().is_empty()
trim_is_empty(text) == \A i \in 1..Len(text) : IsWhitespace(text[i].c)

MAX_ERROR_BODY_BYTES == 2048

\* the literal "...(truncated)"
TruncationMarker ==
    Run(".", 3) \o Run("(", 1) \o Run("t", 1) \o Run("r", 1) \o Run("u", 1)
    \o Run("n", 1) \o Run("c", 1) \o Run("a", 1) \o Run("t", 1) \o Run("e", 1)
    \o Run("d", 1) \o Run(")", 1)

truncate_for_error_exclusive(text) ==
    IF len(text) < MAX_ERROR_BODY_BYTES
    THEN [panic |-> FALSE, body |-> text]
    ELSE IF ~is_char_boundary(text, MAX_ERROR_BODY_BYTES)
    THEN [panic |-> TRUE, body |-> <<>>]
    ELSE [panic |-> FALSE,
          body |-> slice_to(text, MAX_ERROR_BODY_BYTES) \o TruncationMarker]

\* truncate_for_error: slicing a str off a character boundary panics
truncate_for_error(text) ==
    IF len(text) <= MAX_ERROR_BODY_BYTES
    THEN [panic |-> FALSE, body |-> text]
    ELSE IF ~is_char_boundary(text, MAX_ERROR_BODY_BYTES)
    THEN [panic |-> TRUE, body |-> <<>>]
    ELSE [panic |-> FALSE,
          body |-> slice_to(text, MAX_ERROR_BODY_BYTES) \o TruncationMarker]

\* The bodies a response may carry
TxtEmpty == <<>>
TxtBlank == Run(" ", 2)
TxtBraces == Run("{", 1) \o Run("}", 1)
TxtNotJson == Run("n", 1) \o Run("o", 1) \o Run("t", 1) \o Run(" ", 1)
              \o Run("j", 1) \o Run("s", 1) \o Run("o", 1) \o Run("n", 1)
TxtFull == Run("a", 2048)
TxtLong == Run("a", 2049)
TxtLongAligned == Run("a", 2046) \o Run("U+00E9", 1) \o Run("a", 5)
TxtStraddle == Run("a", 2047) \o Run("U+00E9", 1) \o Run("a", 5)

TxtPadded == Run(" ", 1) \o TxtBraces \o Run("\n", 1)
TxtNumber == Run("7", 1)

Texts == {TxtEmpty, TxtBlank, TxtBraces, TxtNotJson, TxtFull, TxtLong,
          TxtLongAligned, TxtStraddle, TxtPadded, TxtNumber}

\* serde_json::from_str::<Value> on the bodies of the model
\* A serde_json Value: the empty object, a parsed body, or {"raw": text}
NoValue == [obj |-> "none", raw |-> <<>>]
EmptyObject == [obj |-> "{}", raw |-> <<>>]
RawObject(text) == [obj |-> "raw", raw |-> text]
Number7 == [obj |-> "7", raw |-> <<>>]

\* the parser skips the whitespace around the one JSON value of a text
SkipWhitespace(text) ==
    LET solid == {i \in 1..Len(text) : ~IsWhitespace(text[i].c)}
    IN  IF solid = {} THEN <<>>
        ELSE SubSeq(text, CHOOSE i \in solid : \A j \in solid : i <= j,
                          CHOOSE i \in solid : \A j \in solid : j <= i)

from_str(text) ==
    LET token == SkipWhitespace(text)
    IN  IF token = TxtBraces THEN [ok |-> TRUE, value |-> EmptyObject]
        ELSE IF token = TxtNumber THEN [ok |-> TRUE, value |-> Number7]
        ELSE [ok |-> FALSE, value |-> NoValue]

----------------------------------------------------------------------------
(* Methods, paths and URLs *)

Http == <<"h", "t", "t", "p", ":", "/", "/">>
Https == <<"h", "t", "t", "p", "s", ":", "/", "/">>

Methods == {<<"G", "E", "T">>, <<"P", "O", "S", "T">>, <<>>, <<"G", " ", "T">>}

\* Method::from_bytes: a non-empty token
MethodFromBytes(m) == m /= <<>> /\ \A i \in 1..Len(m) : m[i] /= " "

Paths == {<<"a", "p", "i">>, <<"/", "a", "p", "i">>, Http \o <<"x">>, Https}

\* base_url as Config::from_cli leaves it: a scheme and a site
BaseUrls == {Https \o <<"d", "d">>, Https \o <<"d", " ", "d">>}

\* the fixed requests of query_logs, query_metrics and query_events
GET == <<"G", "E", "T">>
POST == <<"P", "O", "S", "T">>
LogsPath == <<"/", "a", "p", "i", "/", "v", "2", "/", "l", "o", "g", "s", "/",
              "e", "v", "e", "n", "t", "s", "/", "s", "e", "a", "r", "c", "h">>
MetricsPath == <<"/", "a", "p", "i", "/", "v", "1", "/", "q", "u", "e", "r", "y">>
EventsPath == <<"/", "a", "p", "i", "/", "v", "2", "/", "e", "v", "e", "n", "t", "s">>
LogsBody(sort) == [filter |-> "query, from, to", sort |-> sort, page |-> "limit"]
MetricsParams == <<<<"query", "q">>, <<"from", "1">>, <<"to", "2">>>>
EventsParams(sort) ==
    <<<<"filter[from]", "f">>, <<"filter[to]", "t">>, <<"page[limit]", "50">>,
      <<"sort", sort>>>>

\* the arguments of raw besides method and path
RawArgs == { [params |-> <<>>, body |-> None],
             [params |-> <<<<"k", "v">>>>, body |-> Some([payload |-> "json"])] }

\* the --sort values
Asc == <<"a", "s", "c">>
Desc == <<"d", "e", "s", "c">>
Sorts == {Asc, Desc, <<"A", "S", "C">>, <<"D", "e", "s", "c">>,
          <<"s", "i", "d", "e", "w", "a", "y", "s">>, <<>>}

\* str::to_ascii_lowercase
UpperCase == <<"A", "B", "C", "D", "E", "F", "G", "H", "I", "J", "K", "L", "M",
               "N", "O", "P", "Q", "R", "S", "T", "U", "V", "W", "X", "Y", "Z">>
LowerCase == <<"a", "b", "c", "d", "e", "f", "g", "h", "i", "j", "k", "l", "m",
               "n", "o", "p", "q", "r", "s", "t", "u", "v", "w", "x", "y", "z">>
no_lowercase(s) == s

to_ascii_lowercase(s) ==
    [i \in 1..Len(s) |->
        IF \E k \in 1..26 : UpperCase[k] = s[i]
        THEN LowerCase[CHOOSE k \in 1..26 : UpperCase[k] = s[i]]
        ELSE s[i]]

\* Url::parse on strings that start with http:// or https://: the host,
\* up to the first "/", is non-empty and holds no space
RECURSIVE HostOf(_)
HostOf(s) ==
    IF s = <<>> \/ Head(s) = "/" THEN <<>>
    ELSE <<Head(s)>> \o HostOf(Tail(s))

UrlParse(s) ==
    LET rest == IF starts_with(s, Https) THEN SubSeq(s, Len(Https) + 1, Len(s))
                ELSE IF starts_with(s, Http) THEN SubSeq(s, Len(Http) + 1, Len(s))
                ELSE <<>>
        host == HostOf(rest)
    IN  host /= <<>> /\ \A i \in 1..Len(host) : host[i] /= " "

resolve_url_no_slash(base, path) ==
    IF starts_with(path, Http) \/ starts_with(path, Https)
    THEN [ok |-> UrlParse(path), url |-> path, context |-> "Invalid raw URL."]
    ELSE [ok |-> UrlParse(base \o path), url |-> base \o path,
          context |-> "Invalid Datadog URL built from"]

\* resolve_url
resolve_url(base, path) ==
    IF starts_with(path, Http) \/ starts_with(path, Https)
    THEN [ok |-> UrlParse(path), url |-> path, context |-> "Invalid raw URL."]
    ELSE LET normalized_path == IF starts_with(path, <<"/">>) THEN path
                                ELSE <<"/">> \o path
             url == base \o normalized_path
         IN  [ok |-> UrlParse(url), url |-> url,
              context |-> "Invalid Datadog URL built from"]

----------------------------------------------------------------------------
(* Configuration: Cli values and Config::from_cli *)

\* the flags --retry-backoff-ms / --retry-max-backoff-ms / --timeout-seconds
CliBackoffs ==
    { [retry_backoff_ms |-> 250, retry_max_backoff_ms |-> 5000, timeout_seconds |-> 30],
      [retry_backoff_ms |-> 250, retry_max_backoff_ms |-> 300, timeout_seconds |-> 30],
      [retry_backoff_ms |-> 0, retry_max_backoff_ms |-> 5000, timeout_seconds |-> 30],
      [retry_backoff_ms |-> 250, retry_max_backoff_ms |-> 100, timeout_seconds |-> 30],
      [retry_backoff_ms |-> 250, retry_max_backoff_ms |-> 5000, timeout_seconds |-> 0] }

from_cli_ok_unordered(c) ==
    /\ c.retry_backoff_ms /= 0
    /\ c.timeout_seconds /= 0

\* the validation of Config::from_cli
from_cli_ok(c) ==
    /\ c.retry_backoff_ms /= 0
    /\ ~(c.retry_max_backoff_ms < c.retry_backoff_ms)
    /\ c.timeout_seconds /= 0

\* the RetryConfig that Config::from_cli builds
RetryConfig(retries, rrl, c) ==
    [max_retries |-> retries,
     backoff_ms |-> c.retry_backoff_ms,
     max_backoff_ms |-> c.retry_max_backoff_ms,
     retry_rate_limit |-> rrl]

\* the error Config::from_cli returns, "" when it returns Ok
from_cli_error(c) ==
    IF c.retry_backoff_ms = 0
    THEN "--retry-backoff-ms must be greater than 0."
    ELSE IF c.retry_max_backoff_ms < c.retry_backoff_ms
    THEN "--retry-max-backoff-ms must be greater than or equal to --retry-backoff-ms."
    ELSE IF c.timeout_seconds = 0
    THEN "--timeout-seconds must be greater than 0."
    ELSE ""

\* The parsed command line.  The credentials and the site are taken as
\* resolved (config.rs:24-45): base_url is what normalize_base_url returned.
WithRetries(r, b, c) ==
    [retries |-> r, retry_rate_limit |-> b,
     retry_backoff_ms |-> c.retry_backoff_ms,
     retry_max_backoff_ms |-> c.retry_max_backoff_ms,
     timeout_seconds |-> c.timeout_seconds]

Clis == { WithRetries(r, b, c) : r \in 0..MaxRetries, b \in BOOLEAN, c \in CliBackoffs }

\* no RetryConfig is built before Config::from_cli returns Ok
NoRetry == [max_retries |-> 0, backoff_ms |-> 0, max_backoff_ms |-> 0,
            retry_rate_limit |-> FALSE]

----------------------------------------------------------------------------
(* What the network hands back *)

\* reqwest::Error as send() returns it: its kind and what its source chain holds
NoError == [kind |-> "none", timeout |-> FALSE, connect |-> FALSE]
SendErrors ==
    { [kind |-> "Builder", timeout |-> FALSE, connect |-> FALSE],
      [kind |-> "Request", timeout |-> FALSE, connect |-> FALSE],
      [kind |-> "Request", timeout |-> FALSE, connect |-> TRUE],
      [kind |-> "Request", timeout |-> TRUE, connect |-> FALSE],
      [kind |-> "Redirect", timeout |-> FALSE, connect |-> FALSE] }
\* reqwest::Error as text() returns it
TextError == [kind |-> "Decode", timeout |-> FALSE, connect |-> FALSE]

Statuses == {100, 200, 204, 302, 400, 401, 403, 404, 408, 429, 500, 503}

\* The Retry-After header of a response: absent, an unsigned decimal integer
\* n that fits the word, or any other text (an HTTP-date, a larger integer)
NoHeader == [kind |-> "absent", n |-> 0]
RetryAfterHeaders ==
    { NoHeader,
      [kind |-> "int", n |-> 2],
      [kind |-> "int", n |-> WordMax],
      [kind |-> "text", n |-> 0] }

parse_retry_after_ms_seconds(header) ==
    IF header.kind = "absent" THEN None
    ELSE IF header.kind /= "int" THEN None
    ELSE Some(header.n)

\* parse_retry_after_ms
parse_retry_after_ms(header) ==
    IF header.kind = "absent" THEN None
    ELSE IF header.kind /= "int" THEN None
    ELSE Some(saturating_mul(header.n, 1000))

\* is_retryable_transport_error without the is_request() test
is_retryable_transport_error_no_request(err) ==
    err.timeout \/ err.connect \/ err.kind = "Body"

\* is_retryable_transport_error
is_retryable_transport_error(err) ==
    err.timeout \/ err.connect \/ err.kind = "Body" \/ err.kind = "Request"

\* is_success taken as "status is 200 OK"
is_success_only_200(status) == status = 200

\* StatusCode::is_success, StatusCode::is_server_error
is_success(status) == 200 <= status /\ status <= 299
is_server_error(status) == 500 <= status /\ status <= 599

\* is_retryable_status
is_retryable_status(status) == status = 408 \/ is_server_error(status)

----------------------------------------------------------------------------
(* The retry policy *)

\* backoff_ms without the final .min(max_backoff_ms)
backoff_ms_unclamped(a) ==
    saturating_mul(retry.backoff_ms, Pow2(Min(a, 16)))

\* backoff_ms
backoff_ms(a) ==
    LET multiplier == Pow2(Min(a, 16))
    IN  Min(saturating_mul(retry.backoff_ms, multiplier), retry.max_backoff_ms)

delay_ms_next_attempt(a, retry_after_ms) ==
    IF retry_after_ms /= None THEN retry_after_ms[1] ELSE backoff_ms(a + 1)

\* the delay of sleep_before_retry
delay_ms(a, retry_after_ms) ==
    IF retry_after_ms /= None THEN retry_after_ms[1] ELSE backoff_ms(a)

\* the retry guard written with <= instead of <
can_retry_inclusive(a) == a <= retry.max_retries

\* the retry guard of the loop: attempt < self.retry.max_retries
can_retry(a) == a < retry.max_retries

----------------------------------------------------------------------------
(* Outcomes: Result<Value, DatadogError> *)

NoOutcome ==
    [kind |-> "none", status |-> None, body |-> <<>>, retry_after_ms |-> None,
     message |-> "", attempts |-> 0, value |-> NoValue]

Success(value) == [NoOutcome EXCEPT !.kind = "Success", !.value = value]
InvalidRequest(message) ==
    [NoOutcome EXCEPT !.kind = "InvalidRequest", !.message = message]
Auth(status, body) ==
    [NoOutcome EXCEPT !.kind = "Auth", !.status = Some(status), !.body = body]
RateLimited(body, retry_after_ms) ==
    [NoOutcome EXCEPT !.kind = "RateLimited", !.body = body,
                      !.retry_after_ms = retry_after_ms]
Retryable(status, message, attempts, body) ==
    [NoOutcome EXCEPT !.kind = "Retryable", !.status = status,
                      !.message = message, !.attempts = attempts, !.body = body]
Api(status, body) ==
    [NoOutcome EXCEPT !.kind = "Api", !.status = Some(status), !.body = body]
\* run: AppError::Usage made from the error of Config::from_cli
UsageError(message) == [NoOutcome EXCEPT !.kind = "Usage", !.message = message]

ErrorKinds == {"InvalidRequest", "Auth", "RateLimited", "Retryable", "Api"}

\* what one loop iteration decides: return, sleep and retry, or panic
Return(o) == [next |-> "done", outcome |-> o, delay |-> None]
SleepThenRetry(d) == [next |-> "sleep", outcome |-> NoOutcome, delay |-> Some(d)]
Panic == [next |-> "panic", outcome |-> NoOutcome, delay |-> None]

\* send_json, the Err arm of request.send().await.  attempt + 1 stays inside
\* u32 for every max_retries below 2^32 - 1; the model keeps max_retries at
\* most MaxRetries.
on_send_error(err) ==
    IF is_retryable_transport_error(err) /\ can_retry(attempt)
    THEN SleepThenRetry(delay_ms(attempt, None))
    ELSE IF is_retryable_transport_error(err)
    THEN Return(Retryable(None, "Datadog request failed after", attempt + 1, <<>>))
    ELSE Return(InvalidRequest("Datadog request setup failed"))

\* send_json, the Err arm of response.text().await
on_text_error(status) ==
    IF can_retry(attempt)
    THEN SleepThenRetry(delay_ms(attempt, None))
    ELSE Return(Retryable(Some(status), "Failed to read Datadog response after",
                          attempt + 1, <<>>))

\* send_json after the body has been read
on_text(status, retry_after_ms, text) ==
    IF is_success(status)
    THEN IF trim_is_empty(text) THEN Return(Success(EmptyObject))
         ELSE IF from_str(text).ok THEN Return(Success(from_str(text).value))
         ELSE Return(Success(RawObject(text)))
    ELSE LET t == truncate_for_error(text)
             body == t.body
         IN  IF t.panic THEN Panic
             ELSE IF status = 401 \/ status = 403 THEN Return(Auth(status, body))
             ELSE IF status = 429
             THEN IF retry.retry_rate_limit /\ can_retry(attempt)
                  THEN SleepThenRetry(delay_ms(attempt, retry_after_ms))
                  ELSE Return(RateLimited(body, retry_after_ms))
             ELSE IF is_retryable_status(status)
             THEN IF can_retry(attempt)
                  THEN SleepThenRetry(delay_ms(attempt, None))
                  ELSE Return(Retryable(Some(status), "Datadog API returned",
                                        attempt + 1, body))
             ELSE Return(Api(status, body))

----------------------------------------------------------------------------
(* State *)

NoReq == [op |-> "none", method |-> <<>>, path |-> <<>>, params |-> None,
          body |-> None]
\* the request handed to send(): method, URL, query pairs in order, headers,
\* JSON body
Headers == <<"DD-API-KEY", "DD-APPLICATION-KEY", "Content-Type", "Accept">>
NoSent == [method |-> <<>>, url |-> <<>>, query |-> <<>>, headers |-> <<>>,
           body |-> None]
NoResponse == [status |-> 0, retry_after_ms |-> None]
\* the result of the latest attempt: what send() and text() returned
NoAttempt == [kind |-> "none", err |-> NoError, status |-> 0,
              header |-> NoHeader, text |-> <<>>]

Init ==
    /\ cli \in Clis
    /\ retry = NoRetry
    /\ base_url \in BaseUrls
    /\ req = NoReq
    /\ sent = NoSent
    /\ pc = "cli"
    /\ attempt = 0
    /\ response = NoResponse
    /\ delay = None
    /\ sends = 0
    /\ sleeps = 0
    /\ last = NoAttempt
    /\ outcome = NoOutcome

\* a loop that sleeps after every attempt, the last one included
Decide_sleeping_always(step) ==
    /\ pc' = step.next
    /\ outcome' = step.outcome
    /\ delay' = step.delay
    /\ sleeps' = sleeps + 1

\* apply the decision of one loop iteration
Decide(step) ==
    /\ pc' = step.next
    /\ outcome' = step.outcome
    /\ delay' = step.delay
    /\ sleeps' = IF step.next = "sleep" THEN sleeps + 1 ELSE sleeps

\* run: Config::from_cli, then DatadogClient::new
from_cli ==
    /\ pc = "cli"
    /\ IF from_cli_ok(cli)
       THEN /\ pc' = "idle"
            /\ retry' = RetryConfig(cli.retries, cli.retry_rate_limit, cli)
            /\ outcome' = outcome
       ELSE /\ pc' = "done"
            /\ retry' = retry
            /\ outcome' = UsageError(from_cli_error(cli))
    /\ UNCHANGED <<cli, base_url, req, attempt, response, delay, sends, sleeps,
                   sent, last>>

\* the entry of send_json: let mut attempt: u32 = 0
call_send_json(op, method, path, params, body) ==
    /\ req' = [op |-> op, method |-> method, path |-> path, params |-> params,
               body |-> body]
    /\ pc' = "loop"
    /\ attempt' = 0
    /\ outcome' = outcome

\* an entry point returns InvalidRequest before it calls send_json
reject(op, message) ==
    /\ req' = [NoReq EXCEPT !.op = op]
    /\ pc' = "done"
    /\ attempt' = attempt
    /\ outcome' = InvalidRequest(message)

\* DatadogClient::query_logs
query_logs(sort) ==
    /\ pc = "idle"
    /\ LET lower == to_ascii_lowercase(sort)
       IN  IF lower = Asc
           THEN call_send_json("logs", POST, LogsPath, None,
                               Some(LogsBody("timestamp")))
           ELSE IF lower = Desc
           THEN call_send_json("logs", POST, LogsPath, None,
                               Some(LogsBody("-timestamp")))
           ELSE reject("logs", "Invalid sort. Use asc or desc for logs queries.")
    /\ UNCHANGED <<cli, retry, base_url, response, delay, sends, sleeps, sent, last>>

\* DatadogClient::query_metrics
query_metrics ==
    /\ pc = "idle"
    /\ call_send_json("metrics", GET, MetricsPath, Some(MetricsParams), None)
    /\ UNCHANGED <<cli, retry, base_url, response, delay, sends, sleeps, sent, last>>

\* DatadogClient::query_events
query_events(sort) ==
    /\ pc = "idle"
    /\ LET lower == to_ascii_lowercase(sort)
       IN  IF lower = Asc
           THEN call_send_json("events", GET, EventsPath,
                               Some(EventsParams("timestamp")), None)
           ELSE IF lower = Desc
           THEN call_send_json("events", GET, EventsPath,
                               Some(EventsParams("-timestamp")), None)
           ELSE reject("events", "Invalid sort. Use asc or desc for events queries.")
    /\ UNCHANGED <<cli, retry, base_url, response, delay, sends, sleeps, sent, last>>

\* DatadogClient::raw up to its call of send_json.  The query parameters and
\* the JSON body are handed to send() unchanged and decide no branch.
raw(method, path, params, body) ==
    /\ pc = "idle"
    /\ IF MethodFromBytes(method)
       THEN call_send_json("raw", method, path,
                           IF params = <<>> THEN None ELSE Some(params), body)
       ELSE /\ req' = [NoReq EXCEPT !.op = "raw", !.method = method,
                                    !.path = path]
            /\ pc' = "done"
            /\ attempt' = attempt
            /\ outcome' = InvalidRequest("Invalid HTTP method for raw query.")
    /\ UNCHANGED <<cli, retry, base_url, response, delay, sends, sleeps, sent, last>>

\* a loop whose first attempt consumes the body
send_request_body_once ==
    /\ pc = "loop"
    /\ LET u == resolve_url(base_url, req.path)
       IN  IF u.ok
           THEN /\ pc' = "send"
                /\ sends' = sends + 1
                /\ sent' = [method |-> req.method, url |-> u.url,
                            query |-> IF req.params = None THEN <<>>
                                      ELSE req.params[1],
                            headers |-> Headers,
                            body |-> IF attempt = 0 THEN req.body ELSE None]
                /\ outcome' = outcome
           ELSE /\ pc' = "done"
                /\ sends' = sends
                /\ sent' = sent
                /\ outcome' = InvalidRequest(u.context)
    /\ UNCHANGED <<cli, retry, base_url, req, attempt, response, delay, sleeps, last>>

\* send_json, the head of the loop: resolve the URL, build the request, send it
send_request ==
    /\ pc = "loop"
    /\ LET u == resolve_url(base_url, req.path)
       IN  IF u.ok
           THEN /\ pc' = "send"
                /\ sends' = sends + 1
                /\ sent' = [method |-> req.method, url |-> u.url,
                            query |-> IF req.params = None THEN <<>>
                                      ELSE req.params[1],
                            headers |-> Headers,
                            body |-> req.body]
                /\ outcome' = outcome
           ELSE /\ pc' = "done"
                /\ sends' = sends
                /\ sent' = sent
                /\ outcome' = InvalidRequest(u.context)
    /\ UNCHANGED <<cli, retry, base_url, req, attempt, response, delay, sleeps, last>>

\* request.send().await fails
send_fails(err) ==
    /\ pc = "send"
    /\ last' = [NoAttempt EXCEPT !.kind = "transport", !.err = err]
    /\ Decide(on_send_error(err))
    /\ UNCHANGED <<cli, retry, base_url, req, attempt, response, sends, sent>>

\* a loop that keeps the Retry-After hint of an earlier response
send_returns_keeping_hint(status, header) ==
    /\ pc = "send"
    /\ pc' = "text"
    /\ response' = [status |-> status,
                    retry_after_ms |-> IF parse_retry_after_ms(header) = None
                                       THEN response.retry_after_ms
                                       ELSE parse_retry_after_ms(header)]
    /\ last' = [NoAttempt EXCEPT !.kind = "response", !.status = status,
                                 !.header = header]
    /\ UNCHANGED <<cli, retry, base_url, req, attempt, delay, sends, sleeps, sent,
                   outcome>>

\* request.send().await returns a response: its status and headers are read
send_returns(status, header) ==
    /\ pc = "send"
    /\ pc' = "text"
    /\ response' = [status |-> status,
                    retry_after_ms |-> parse_retry_after_ms(header)]
    /\ last' = [NoAttempt EXCEPT !.kind = "response", !.status = status,
                                 !.header = header]
    /\ UNCHANGED <<cli, retry, base_url, req, attempt, delay, sends, sleeps, sent,
                   outcome>>

\* response.text().await fails
text_fails ==
    /\ pc = "text"
    /\ last' = [last EXCEPT !.kind = "bodyerr", !.err = TextError]
    /\ Decide(on_text_error(response.status))
    /\ UNCHANGED <<cli, retry, base_url, req, attempt, response, sends, sent>>

\* response.text().await returns the body and the response is classified
text_returns(text) ==
    /\ pc = "text"
    /\ last' = [last EXCEPT !.kind = "http", !.text = text]
    /\ Decide(on_text(response.status, response.retry_after_ms, text))
    /\ UNCHANGED <<cli, retry, base_url, req, attempt, response, sends, sent>>

\* the sleep of sleep_before_retry ends: attempt += 1; continue
sleep_returns ==
    /\ pc = "sleep"
    /\ pc' = "loop"
    /\ attempt' = attempt + 1
    /\ delay' = None
    /\ UNCHANGED <<cli, retry, base_url, req, response, sends, sleeps, sent, last,
                   outcome>>

Next ==
    \/ from_cli
    \/ \E s \in Sorts : query_logs(s)
    \/ query_metrics
    \/ \E s \in Sorts : query_events(s)
    \/ \E m \in Methods, p \in Paths, a \in RawArgs : raw(m, p, a.params, a.body)
    \/ send_request
    \/ \E e \in SendErrors : send_fails(e)
    \/ \E s \in Statuses, h \in RetryAfterHeaders : send_returns(s, h)
    \/ text_fails
    \/ \E t \in Texts : text_returns(t)
    \/ sleep_returns

Spec == Init /\ [][Next]_vars

----------------------------------------------------------------------------
(* The backoff computation alone, over attempt indexes beyond the exponent cap *)

BackoffClis ==
    { [retry_backoff_ms |-> b, retry_max_backoff_ms |-> m, timeout_seconds |-> 30] :
        b \in {0, 1, 3, 250, WordMax},
        m \in {0, 1, 300, 5000, 65536, 262144, WordMax} }

InitBackoff ==
    /\ cli \in { WithRetries(MaxBackoffAttempts, TRUE, c) :
                    c \in {x \in BackoffClis : from_cli_ok(x)} }
    /\ retry = RetryConfig(cli.retries, cli.retry_rate_limit, cli)
    /\ base_url \in {Https \o <<"d", "d">>}
    /\ req = NoReq
    /\ sent = NoSent
    /\ pc = "backoff"
    /\ attempt = 0
    /\ response = NoResponse
    /\ delay = None
    /\ sends = 0
    /\ sleeps = 0
    /\ last = NoAttempt
    /\ outcome = NoOutcome

\* one retry: the delay of sleep_before_retry(attempt, None), then attempt += 1
backoff_step ==
    /\ pc = "backoff"
    /\ can_retry(attempt)
    /\ delay' = Some(delay_ms(attempt, None))
    /\ attempt' = attempt + 1
    /\ sleeps' = sleeps + 1
    /\ UNCHANGED <<cli, retry, base_url, req, pc, response, sends, sent, last,
                   outcome>>

NextBackoff == backoff_step

SpecBackoff == InitBackoff /\ [][NextBackoff]_vars

----------------------------------------------------------------------------
(* The retry loop over many retries: a client with a large retry budget,   *)
(* one request, and attempts that fail in each of the retried ways         *)

ManyRetriesClis ==
    { [retry_backoff_ms |-> 1, retry_max_backoff_ms |-> 262144, timeout_seconds |-> 30],
      [retry_backoff_ms |-> 250, retry_max_backoff_ms |-> 5000, timeout_seconds |-> 30],
      [retry_backoff_ms |-> 3, retry_max_backoff_ms |-> WordMax, timeout_seconds |-> 30] }

InitManyRetries ==
    /\ cli \in { WithRetries(MaxBackoffAttempts, b, c) :
                    b \in BOOLEAN, c \in {x \in ManyRetriesClis : from_cli_ok(x)} }
    /\ retry = RetryConfig(cli.retries, cli.retry_rate_limit, cli)
    /\ base_url = Https \o <<"d", "d">>
    /\ req = NoReq
    /\ sent = NoSent
    /\ pc = "idle"
    /\ attempt = 0
    /\ response = NoResponse
    /\ delay = None
    /\ sends = 0
    /\ sleeps = 0
    /\ last = NoAttempt
    /\ outcome = NoOutcome

NextManyRetries ==
    \/ query_metrics
    \/ send_request
    \/ send_fails([kind |-> "Request", timeout |-> TRUE, connect |-> FALSE])
    \/ \E status \in {429, 503}, header \in {NoHeader, [kind |-> "int", n |-> 2]} :
          send_returns(status, header)
    \/ text_fails
    \/ text_returns(TxtNotJson)
    \/ sleep_returns

SpecManyRetries == InitManyRetries /\ [][NextManyRetries]_vars

----------------------------------------------------------------------------
(* The error presenter: src/src/app_error.rs *)

\* impl From<DatadogError> for AppError
AppErrorFrom(o) ==
    [variant |-> CASE o.kind = "InvalidRequest" -> "Usage"
                   [] o.kind = "Auth" -> "Auth"
                   [] o.kind = "RateLimited" -> "RateLimited"
                   [] o.kind = "Retryable" -> "Upstream"
                   [] o.kind = "Api" -> "Api",
     status |-> o.status,
     retry_after_ms |-> o.retry_after_ms]

exit_code_shared(e) ==
    CASE e.variant = "Usage" -> 2
      [] e.variant = "Auth" -> 3
      [] e.variant = "RateLimited" -> 4
      [] e.variant = "Upstream" -> 5
      [] e.variant = "Api" -> 5
      [] e.variant = "Internal" -> 1

\* AppError::exit_code
exit_code(e) ==
    CASE e.variant = "Usage" -> 2
      [] e.variant = "Auth" -> 3
      [] e.variant = "RateLimited" -> 4
      [] e.variant = "Upstream" -> 5
      [] e.variant = "Api" -> 6
      [] e.variant = "Internal" -> 1

\* AppError::to_json: the fields that classify the error
to_json(e) ==
    [category |-> CASE e.variant = "Usage" -> "usage"
                    [] e.variant = "Auth" -> "auth"
                    [] e.variant = "RateLimited" -> "rate_limit"
                    [] e.variant = "Upstream" -> "upstream"
                    [] e.variant = "Api" -> "api"
                    [] e.variant = "Internal" -> "internal",
     exit_code |-> exit_code(e),
     retryable |-> CASE e.variant = "Usage" -> FALSE
                     [] e.variant = "Auth" -> FALSE
                     [] e.variant = "RateLimited" -> FALSE
                     [] e.variant = "Upstream" -> TRUE
                     [] e.variant = "Api" -> FALSE
                     [] e.variant = "Internal" -> FALSE]


----------------------------------------------------------------------------
(* Claims *)

\* the call has ended: it returned or it panicked
Finished == pc \in {"done", "panic"}
\* the latest attempt got a response (its body read or not) with this status
GotStatus(S) == last.kind \in {"http", "bodyerr"} /\ last.status \in S
\* the latest attempt has just been classified, attempt not yet incremented
JustClassified == pc \in {"sleep", "done", "panic"}

\* C1: one call performs at most max_retries+1 sends and max_retries sleeps,
\* the attempt counter never exceeds max_retries, and with max_retries = 0 a
\* call that made an attempt ends after exactly one send and no sleep.
C1_BoundedTries ==
    /\ sends <= retry.max_retries + 1
    /\ sleeps <= retry.max_retries
    /\ attempt <= retry.max_retries
    /\ (retry.max_retries = 0 /\ Finished /\ last.kind /= "none")
          => (sends = 1 /\ sleeps = 0)
    /\ (retry.max_retries = 0 /\ Finished /\ resolve_url(base_url, req.path).ok
          /\ MethodFromBytes(req.method))
          => (sends = 1 /\ sleeps = 0)

C1_Witness ==
    /\ pc = "done"
    /\ retry.max_retries >= 2
    /\ attempt = retry.max_retries
    /\ sends = retry.max_retries + 1
    /\ sleeps = retry.max_retries
    /\ outcome.kind = "Retryable"

\* C2: once an attempt has received a response with status 401 or 403 the
\* call is over with Auth carrying that status: no sleep, no further send.
C2_AuthEndsTheCall ==
    (GotStatus({401, 403}))
        => (pc = "done" /\ outcome.kind = "Auth"
            /\ outcome.status = Some(last.status))

\* C3: with retry_rate_limit = false, once an attempt has received 429 the
\* call is over with RateLimited: no sleep, no further send.
C3_RateLimitNotRetried ==
    (~retry.retry_rate_limit /\ GotStatus({429}))
        => (pc = "done" /\ outcome.kind = "RateLimited")

\* C4: an attempt that received 429 while retry_rate_limit is true and
\* attempt < max_retries is followed by a sleep of exactly N*1000 ms when the
\* Retry-After header holds the integer N, and of the computed backoff of
\* the current attempt when there is no parsable header.
C4_RetryAfterDelay ==
    (/\ GotStatus({429})
     /\ JustClassified
     /\ retry.retry_rate_limit
     /\ attempt < retry.max_retries)
        => /\ pc = "sleep"
           /\ delay /= None
           /\ IF last.header.kind = "int"
              THEN delay[1] % 1000 = 0 /\ delay[1] \div 1000 = last.header.n
              ELSE delay[1] = backoff_ms(attempt)

\* C5: a call whose latest attempt received 408 or 5xx is either retrying or
\* has returned Retryable with that status after max_retries+1 sends, its
\* message stating max_retries+1 attempts; every Retryable outcome is
\* returned at attempt = max_retries, states attempt+1 attempts and is
\* presented as category upstream with retryable = true.
C5_ExhaustedIsUpstream ==
    /\ (GotStatus({408, 500, 503}) /\ Finished)
          => /\ pc = "done"
             /\ outcome.kind = "Retryable"
             /\ outcome.status = Some(last.status)
             /\ outcome.attempts = retry.max_retries + 1
             /\ sends = retry.max_retries + 1
    /\ (outcome.kind = "Retryable")
          => /\ attempt = retry.max_retries
             /\ outcome.attempts = attempt + 1
             /\ to_json(AppErrorFrom(outcome)).category = "upstream"
             /\ to_json(AppErrorFrom(outcome)).retryable = TRUE

\* min(base * 2^k, max) computed without leaving the word
MinOfDoubling(base, k, max) ==
    IF base > max \div Pow2(k) THEN max ELSE base * Pow2(k)

\* C6 as stated: the delay computed for attempt a is min(base * 2^a, max)
\* for every a below max_retries, and the delays never decrease.
C6_BackoffUncapped ==
    (pc = "backoff" /\ delay /= None)
        => LET a == attempt - 1
           IN  /\ delay[1] = MinOfDoubling(retry.backoff_ms, a, retry.max_backoff_ms)
               /\ (a >= 1 => backoff_ms(a - 1) <= delay[1])

\* C6 amended: the delay computed for attempt a is
\* min(base * 2^min(a, 16), max), and the delays never decrease.
C6_BackoffCapped ==
    (pc = "backoff" /\ delay /= None)
        => LET a == attempt - 1
           IN  /\ delay[1] = MinOfDoubling(retry.backoff_ms, Min(a, 16),
                                           retry.max_backoff_ms)
               /\ (a >= 1 => backoff_ms(a - 1) <= delay[1])

C6_Witness ==
    /\ pc = "backoff"
    /\ attempt - 1 > 16
    /\ delay = Some(65536)
    /\ retry.backoff_ms = 1
    /\ retry.max_backoff_ms = 262144

\* C7: the call never panics; when it ends it has returned Success or one
\* of the five error kinds.
C7_NeverPanics ==
    /\ pc /= "panic"
    /\ pc = "done" => outcome.kind \in ErrorKinds \cup {"Success"}

PreflightMessages ==
    {"Invalid HTTP method for raw query.", "Invalid raw URL.",
     "Invalid Datadog URL built from"}

\* the InvalidRequest was returned by raw or by send_json, not by the sort
\* check of query_logs and query_events
FromRawOrSendJson ==
    outcome.message \notin {"Invalid sort. Use asc or desc for logs queries.",
                            "Invalid sort. Use asc or desc for events queries."}

C9_OtherStatusIsApi ==
    (GotStatus({100, 302, 400, 404}))
        => /\ pc = "done"
           /\ outcome.kind = "Api"
           /\ outcome.status = Some(last.status)
           /\ outcome.body = truncate_for_error(last.text).body

\* C10: once an attempt has received a 2xx status with an empty body the
\* call is over with Success({}) at that attempt: no further send.
C10_EmptyBodyIsEmptyObject ==
    (last.kind = "http" /\ last.status \in 200..299 /\ last.text = TxtEmpty)
        => /\ pc = "done"
           /\ outcome = Success(EmptyObject)
           /\ sends = attempt + 1

C10_Witness ==
    /\ pc = "done"
    /\ last.kind = "http"
    /\ last.status = 204
    /\ last.text = TxtEmpty
    /\ attempt = 1
    /\ outcome = Success(EmptyObject)

\* the body of the latest response is not empty and is whitespace only
OnlyWhitespace ==
    /\ last.text /= <<>>
    /\ \A i \in 1..Len(last.text) : last.text[i].c \in {" ", "\n", "\t"}

\* C11 as stated: once an attempt has received a 2xx status with a non-empty
\* body the call is over with Success: the parsed value when the body is
\* JSON, otherwise {"raw": text} with exactly the body, whitespace-only
\* bodies included.
C11_NonEmptyBodyIsParsedOrRaw ==
    (last.kind = "http" /\ last.status \in 200..299 /\ last.text /= TxtEmpty)
        => /\ pc = "done"
           /\ outcome.kind = "Success"
           /\ outcome.value = IF from_str(last.text).ok
                              THEN from_str(last.text).value
                              ELSE RawObject(last.text)

\* C11 amended: once an attempt has received a 2xx status with a non-empty
\* body the call is over with Success: {} when the body is whitespace only,
\* otherwise the parsed value when the body is JSON, otherwise {"raw": text}
\* with exactly the body.
C11_BlankParsedOrRaw ==
    (last.kind = "http" /\ last.status \in 200..299 /\ last.text /= TxtEmpty)
        => /\ pc = "done"
           /\ outcome.kind = "Success"
           /\ outcome.value = IF OnlyWhitespace THEN EmptyObject
                              ELSE IF from_str(last.text).ok
                              THEN from_str(last.text).value
                              ELSE RawObject(last.text)

C11_Witness ==
    /\ pc = "done"
    /\ last.kind = "http"
    /\ last.status = 204
    /\ last.text = TxtBlank
    /\ outcome = Success(EmptyObject)
    /\ attempt = 1

\* the call returned an error that embeds the text of a response body
EmbedsBody ==
    /\ pc = "done"
    /\ \/ outcome.kind \in {"Auth", "RateLimited", "Api"}
       \/ outcome.kind = "Retryable" /\ outcome.message = "Datadog API returned"

\* C12: the body embedded in an Auth, RateLimited, Retryable or Api outcome
\* is the text of the latest response when that text has at most 2048 bytes,
\* otherwise its first 2048 bytes followed by "...(truncated)"; it is never
\* longer than 2048 bytes plus the marker.
C12_EmbeddedBodyTruncated ==
    EmbedsBody
        => /\ last.kind = "http"
           /\ outcome.body = IF len(last.text) <= 2048 THEN last.text
                             ELSE slice_to(last.text, 2048) \o TruncationMarker
           /\ len(outcome.body) <= 2048 + 14

C12_Witness ==
    /\ pc = "done"
    /\ outcome.kind = "Api"
    /\ last.text = TxtLongAligned
    /\ len(last.text) = 2053
    /\ outcome.body = Run("a", 2046) \o Run("U+00E9", 1) \o TruncationMarker
    /\ len(outcome.body) = 2062

\* what a step of query_logs or query_events did with the sort it was given
LogsSortIs(value) ==
    pc' = "loop" /\ req'.op = "logs" /\ req'.body /= None
    /\ req'.body[1].sort = value
EventsSortIs(value) ==
    pc' = "loop" /\ req'.op = "events" /\ req'.params /= None
    /\ req'.params[1][4] = <<"sort", value>>
SortRejected ==
    pc' = "done" /\ outcome'.kind = "InvalidRequest" /\ sends' = 0 /\ sleeps' = 0

\* s is word, with any of its letters in upper case
SpellsIgnoringCase(s, word) ==
    /\ Len(s) = Len(word)
    /\ \A i \in 1..Len(s) :
          \/ s[i] = word[i]
          \/ \E k \in 1..26 : LowerCase[k] = word[i] /\ UpperCase[k] = s[i]

\* C13 as stated: query_logs and query_events turn the sort asc into
\* timestamp and desc into -timestamp, and return InvalidRequest with no send
\* for any other value.
C13_SortExact ==
    [][\A s \in Sorts :
          /\ query_logs(s) =>
                IF s = Asc THEN LogsSortIs("timestamp")
                ELSE IF s = Desc THEN LogsSortIs("-timestamp")
                ELSE SortRejected
          /\ query_events(s) =>
                IF s = Asc THEN EventsSortIs("timestamp")
                ELSE IF s = Desc THEN EventsSortIs("-timestamp")
                ELSE SortRejected]_vars

\* C13 amended: query_logs and query_events turn a sort that spells asc in
\* any letter case into timestamp and one that spells desc in any letter
\* case into -timestamp, and return InvalidRequest with no send for any
\* other value.
C13_SortIgnoringCase ==
    [][\A s \in Sorts :
          /\ query_logs(s) =>
                IF SpellsIgnoringCase(s, Asc) THEN LogsSortIs("timestamp")
                ELSE IF SpellsIgnoringCase(s, Desc) THEN LogsSortIs("-timestamp")
                ELSE SortRejected
          /\ query_events(s) =>
                IF SpellsIgnoringCase(s, Asc) THEN EventsSortIs("timestamp")
                ELSE IF SpellsIgnoringCase(s, Desc) THEN EventsSortIs("-timestamp")
                ELSE SortRejected]_vars

C13_Witness ==
    /\ pc = "done"
    /\ req.op = "events"
    /\ outcome = InvalidRequest("Invalid sort. Use asc or desc for events queries.")
    /\ sends = 0

\* the presentation the claim gives for each error kind of the engine
Presentation(kind) ==
    CASE kind = "InvalidRequest" -> [category |-> "usage", exit_code |-> 2, retryable |-> FALSE]
      [] kind = "Auth" -> [category |-> "auth", exit_code |-> 3, retryable |-> FALSE]
      [] kind = "RateLimited" -> [category |-> "rate_limit", exit_code |-> 4, retryable |-> FALSE]
      [] kind = "Retryable" -> [category |-> "upstream", exit_code |-> 5, retryable |-> TRUE]
      [] kind = "Api" -> [category |-> "api", exit_code |-> 6, retryable |-> FALSE]

AppErrors ==
    { [variant |-> v, status |-> None, retry_after_ms |-> None] :
        v \in {"Usage", "Auth", "RateLimited", "Upstream", "Api", "Internal"} }

\* C14: an error the engine returned is presented as usage/2, auth/3,
\* rate_limit/4, upstream/5 or api/6 according to its kind, never as
\* internal/1; the exit_code field equals exit_code(); the exit codes of the
\* variants are pairwise distinct; retryable is true exactly for upstream.
C14_PresenterMapping ==
    /\ (pc = "done" /\ outcome.kind \in ErrorKinds)
          => LET e == AppErrorFrom(outcome)
                 j == to_json(e)
             IN  /\ j = Presentation(outcome.kind)
                 /\ j.exit_code = exit_code(e)
                 /\ j.category /= "internal"
                 /\ j.exit_code /= 1
    /\ \A e \in AppErrors :
          /\ to_json(e).exit_code = exit_code(e)
          /\ to_json(e).retryable <=> (to_json(e).category = "upstream")
          /\ \A f \in AppErrors : (e /= f) => (exit_code(e) /= exit_code(f))

C14_Witness ==
    /\ pc = "done"
    /\ outcome.kind = "Retryable"
    /\ outcome.status = Some(503)
    /\ to_json(AppErrorFrom(outcome))
          = [category |-> "upstream", exit_code |-> 5, retryable |-> TRUE]

\* the path names its own scheme
IsAbsolute(path) ==
    \/ Len(path) >= 7 /\ SubSeq(path, 1, 7) = <<"h", "t", "t", "p", ":", "/", "/">>
    \/ Len(path) >= 8 /\ SubSeq(path, 1, 8) = <<"h", "t", "t", "p", "s", ":", "/", "/">>

AllPaths == Paths \cup {LogsPath, MetricsPath, EventsPath}

\* C15: the URL of every request sent is the path itself when the path
\* starts with http:// or https://, whatever base_url is, and otherwise
\* base_url followed by the path, with a / put between them when the path
\* does not start with one; so p and /p resolve to the same URL.
C15_ResolvedUrl ==
    /\ (sent /= NoSent)
          => sent.url = IF IsAbsolute(req.path) THEN req.path
                        ELSE IF req.path /= <<>> /\ Head(req.path) = "/"
                        THEN base_url \o req.path
                        ELSE base_url \o <<"/">> \o req.path
    /\ \A p \in AllPaths :
          /\ IsAbsolute(p)
                => \A b \in BaseUrls : resolve_url(b, p).url = p
          /\ (~IsAbsolute(p) /\ (p = <<>> \/ Head(p) /= "/"))
                => \A b \in BaseUrls :
                      resolve_url(b, p).url = resolve_url(b, <<"/">> \o p).url

C15_Witness ==
    /\ sends = 1
    /\ req.path = <<"a", "p", "i">>
    /\ base_url = Https \o <<"d", "d">>
    /\ sent.url = Https \o <<"d", "d", "/", "a", "p", "i">>

\* Config::from_cli returned Ok and the client was built
ClientBuilt == pc /= "cli" /\ outcome.kind /= "Usage"

\* the retry flags and the timeout of the command line are in order
FlagsInOrder ==
    /\ 0 < cli.retry_backoff_ms
    /\ cli.retry_backoff_ms <= cli.retry_max_backoff_ms
    /\ 0 < cli.timeout_seconds

\* C16: in every state after the client was built the policy satisfies
\* 0 < backoff_ms <= max_backoff_ms with a timeout above 0 and is the one
\* built from the command line; a command line that violates this is
\* rejected with a usage error, no client built and nothing sent.
C16_PolicyInvariant ==
    /\ ClientBuilt
          => /\ 0 < retry.backoff_ms
             /\ retry.backoff_ms <= retry.max_backoff_ms
             /\ 0 < cli.timeout_seconds
             /\ retry = [max_retries |-> cli.retries,
                         backoff_ms |-> cli.retry_backoff_ms,
                         max_backoff_ms |-> cli.retry_max_backoff_ms,
                         retry_rate_limit |-> cli.retry_rate_limit]
    /\ (~FlagsInOrder /\ pc /= "cli")
          => /\ pc = "done"
             /\ outcome.kind = "Usage"
             /\ retry = NoRetry
             /\ sends = 0

C16_Witness ==
    /\ pc = "sleep"
    /\ sleeps = 2
    /\ attempt = 1
    /\ retry.backoff_ms = 250
    /\ retry.max_backoff_ms = 300
    /\ delay = Some(300)

\* the latest attempt failed in send() and has just been classified
SendFailed == last.kind = "transport" /\ JustClassified

\* the two ways the claim gives for a failed send
SleepsOrGivesUp ==
    IF attempt < retry.max_retries
    THEN /\ pc = "sleep"
         /\ delay = Some(backoff_ms(attempt))
         /\ sleeps = attempt + 1
    ELSE /\ pc = "done"
         /\ outcome.kind = "Retryable"
         /\ outcome.status = None
         /\ outcome.attempts = attempt + 1

\* the retry of a failed send starts with the attempt counter one higher
RetriedOneHigher ==
    (pc = "loop" /\ last.kind = "transport")
        => (attempt = sends /\ attempt = sleeps /\ attempt <= retry.max_retries)

C18_BackoffIgnoresHeader ==
    /\ (GotStatus({408, 500, 503}) /\ JustClassified
        /\ attempt < retry.max_retries)
          => (pc = "sleep" /\ delay = Some(backoff_ms(attempt)))
    /\ (pc = "sleep" /\ last.kind \in {"transport", "bodyerr"})
          => delay = Some(backoff_ms(attempt))

\* the call returned RateLimited
RateLimitedReturned == pc = "done" /\ outcome.kind = "RateLimited"

\* C19 as stated: a RateLimited outcome carries the truncated body of the
\* latest response, a 429, and a retry_after_ms of exactly 1000 * N when that
\* response has a Retry-After header holding the integer N, none otherwise.
C19_HintTimesThousand ==
    RateLimitedReturned
        => /\ last.kind = "http"
           /\ last.status = 429
           /\ outcome.body = truncate_for_error(last.text).body
           /\ IF last.header.kind = "int"
              THEN /\ outcome.retry_after_ms /= None
                   /\ outcome.retry_after_ms[1] % 1000 = 0
                   /\ outcome.retry_after_ms[1] \div 1000 = last.header.n
              ELSE outcome.retry_after_ms = None

\* C19 amended: a RateLimited outcome carries the truncated body of the
\* latest response, a 429, and a retry_after_ms of 1000 * N, or of the
\* largest word when 1000 * N exceeds it, when that response has a
\* Retry-After header holding the integer N, none otherwise.
C19_HintSaturates ==
    RateLimitedReturned
        => /\ last.kind = "http"
           /\ last.status = 429
           /\ outcome.body = truncate_for_error(last.text).body
           /\ outcome.retry_after_ms
                 = IF last.header.kind /= "int" THEN None
                   ELSE IF last.header.n > WordMax \div 1000 THEN Some(WordMax)
                   ELSE Some(1000 * last.header.n)

C19_Witness ==
    /\ RateLimitedReturned
    /\ attempt = 2
    /\ sleeps = 2
    /\ last.header = [kind |-> "int", n |-> 2]
    /\ outcome.retry_after_ms = Some(2000)
    /\ outcome.body = TxtNotJson

\* C20: RateLimited is returned only when the latest attempt received 429
\* and either retry_rate_limit is false or attempt = max_retries after
\* max_retries+1 sends; an attempt that received 429 while retry_rate_limit
\* is true and attempt < max_retries is followed by a sleep; an attempt that
\* received 429 at attempt = max_retries ends the call with RateLimited.
C20_RateLimitedWhen ==
    /\ RateLimitedReturned
          => /\ GotStatus({429})
             /\ \/ ~retry.retry_rate_limit
                \/ attempt = retry.max_retries /\ sends = retry.max_retries + 1
    /\ (GotStatus({429}) /\ JustClassified /\ retry.retry_rate_limit
        /\ attempt < retry.max_retries)
          => pc = "sleep"
    /\ (GotStatus({429}) /\ JustClassified /\ attempt = retry.max_retries)
          => (pc = "done" /\ outcome.kind = "RateLimited")

\* the sleep lasts what the Retry-After header of a 429 says
HeaderGoverned ==
    last.kind = "http" /\ last.status = 429 /\ last.header.kind = "int"

\* the attempt counter starts at 0 and has gone up by one with every retried
\* failure: it counts the sleeps that ended, and the sends before this one
CounterCountsRetries ==
    /\ (pc \in {"idle", "loop"}) => (attempt = sleeps /\ attempt = sends)
    /\ (pc \in {"send", "text"}) => (attempt = sleeps /\ sends = attempt + 1)
    /\ (pc = "sleep") => (sleeps = attempt + 1 /\ sends = attempt + 1)

\* C21 as stated: the attempt counter starts at 0 and goes up by exactly one
\* with every retried failure, and the computed delay of the k-th retry is
\* min(base * 2^(k-1), max), the first being base, whatever kinds of failure
\* came before.
C21_DelayOfKthRetry ==
    /\ CounterCountsRetries
    /\ (pc = "sleep" /\ ~HeaderGoverned)
          => delay = Some(MinOfDoubling(retry.backoff_ms, sleeps - 1,
                                        retry.max_backoff_ms))

\* C21 amended: the attempt counter starts at 0 and goes up by exactly one
\* with every retried failure, and the computed delay of the k-th retry is
\* min(base * 2^min(k-1, 16), max), the first being base, whatever kinds of
\* failure came before.
C21_DelayOfKthRetryCapped ==
    /\ CounterCountsRetries
    /\ (pc = "sleep" /\ ~HeaderGoverned)
          => delay = Some(MinOfDoubling(retry.backoff_ms, Min(sleeps - 1, 16),
                                        retry.max_backoff_ms))
    /\ (pc = "sleep" /\ sleeps = 1 /\ ~HeaderGoverned)
          => delay = Some(retry.backoff_ms)

C21_Witness ==
    /\ pc = "sleep"
    /\ last.kind = "bodyerr"
    /\ sleeps = 18
    /\ attempt = 17
    /\ retry.backoff_ms = 1
    /\ delay = Some(65536)

\* the latest attempt failed in one of the ways that are retried
LastWasRetryable ==
    \/ last.kind = "transport"
          /\ (last.err.timeout \/ last.err.connect
              \/ last.err.kind \in {"Request", "Body"})
    \/ last.kind = "bodyerr"
    \/ last.kind = "http" /\ last.status = 429 /\ retry.retry_rate_limit
    \/ last.kind = "http" /\ (last.status = 408 \/ last.status \in 500..599)

\* C22: the loop is serial: while a send is in flight every earlier send
\* has been followed by one sleep; a further send starts only after the
\* latest attempt was classified as retryable and its sleep has ended; a call
\* that ended after n sends has slept n-1 times, none after its last send.
C22_StrictlySerial ==
    /\ (pc \in {"send", "text"}) => (sends = sleeps + 1 /\ delay = None)
    /\ (pc = "sleep") => (sends = sleeps /\ LastWasRetryable)
    /\ (pc = "loop") => (sends = sleeps /\ (sends >= 1 => LastWasRetryable))
    /\ (Finished /\ sends >= 1) => (sleeps = sends - 1 /\ delay = None)
    /\ (Finished /\ sends = 0) => sleeps = 0

C22_Witness ==
    /\ pc = "done"
    /\ sends = 3
    /\ sleeps = 2
    /\ delay = None
    /\ outcome.kind = "Success"

\* C23: a call whose sends and sleeps complete ends with exactly one
\* outcome: in every state either a step of the call is possible or the call
\* has returned Success or a classified error; an outcome exists only once
\* the loop is over, and no step follows it.
C23_EndsWithOneOutcome ==
    /\ \/ ENABLED Next
       \/ pc = "done" /\ outcome.kind \in ErrorKinds \cup {"Success", "Usage"}
    /\ (outcome /= NoOutcome) => (pc = "done" /\ ~ENABLED Next)
    /\ (pc = "done") => (outcome /= NoOutcome)
    /\ sends <= retry.max_retries + 1

\* C24: every send of a call carries the method, the query pairs in the
\* order given, the four headers and the body of the call, to the same URL
\* as the send before it; from the entry of send_json on no step changes
\* method, path, params, body, base URL or retry policy, and the end of a
\* sleep changes the attempt counter only.
C24_SameRequestEachAttempt ==
    [][/\ (sends' = sends + 1)
            => /\ sent'.method = req.method
               /\ sent'.query = IF req.params = <<>> THEN <<>> ELSE req.params[1]
               /\ sent'.headers = <<"DD-API-KEY", "DD-APPLICATION-KEY",
                                    "Content-Type", "Accept">>
               /\ sent'.body = req.body
               /\ (sends >= 1) => (sent' = sent)
       /\ (pc \notin {"cli", "idle"})
            => UNCHANGED <<req, base_url, retry, cli>>
       /\ (pc = "sleep")
            => /\ attempt' = attempt + 1
               /\ UNCHANGED <<sent, sends, sleeps, last, outcome>>]_vars

C24_Witness ==
    /\ pc = "send"
    /\ sends = 3
    /\ attempt = 2
    /\ req.op = "events"
    /\ sent.method = GET
    /\ sent.url = Https \o <<"d", "d">> \o EventsPath
    /\ sent.query = EventsParams("-timestamp")
    /\ sent.headers = Headers

\* the outcome as a function of the policy, the result of the latest attempt
\* and the number of sends
OutcomeOfFinalAttempt ==
    IF last.kind = "transport"
    THEN IF \/ last.err.timeout
            \/ last.err.connect
            \/ last.err.kind \in {"Request", "Body"}
         THEN Retryable(None, "Datadog request failed after", sends, <<>>)
         ELSE InvalidRequest("Datadog request setup failed")
    ELSE IF last.kind = "bodyerr"
    THEN Retryable(Some(last.status), "Failed to read Datadog response after",
                   sends, <<>>)
    ELSE IF last.status \in 200..299
    THEN IF last.text = <<>> \/ OnlyWhitespace THEN Success(EmptyObject)
         ELSE IF from_str(last.text).ok THEN Success(from_str(last.text).value)
         ELSE Success(RawObject(last.text))
    ELSE LET body == truncate_for_error(last.text).body
         IN  IF last.status \in {401, 403} THEN Auth(last.status, body)
             ELSE IF last.status = 429
             THEN RateLimited(body, parse_retry_after_ms(last.header))
             ELSE IF last.status = 408 \/ last.status \in 500..599
             THEN Retryable(Some(last.status), "Datadog API returned", sends, body)
             ELSE Api(last.status, body)

\* C25: the outcome of a call that sent at least once is the function
\* OutcomeOfFinalAttempt of the retry policy, the result of its latest
\* attempt and its number of sends, so two calls that agree on these return
\* the same outcome whatever their earlier attempts received.
C25_OutcomeOfFinalAttemptOnly ==
    (pc = "done" /\ sends >= 1)
        => /\ last.kind \in {"transport", "bodyerr", "http"}
           /\ outcome = OutcomeOfFinalAttempt

C25_Witness ==
    /\ pc = "done"
    /\ sends = 3
    /\ last.status = 429
    /\ last.header = NoHeader
    /\ outcome = RateLimited(TxtNotJson, None)

\* C26: a Retryable outcome that carries a status carries 408 or a 5xx
\* status, and an attempt that received a 2xx status, 401, 403 or another
\* status that is neither 429, 408 nor 5xx is followed neither by a sleep
\* nor by a Retryable outcome, also when reading its body failed.
C26_RetryableStatusOnly ==
    /\ (outcome.kind = "Retryable" /\ outcome.status /= None)
          => (outcome.status[1] = 408 \/ outcome.status[1] \in 500..599)
    /\ (GotStatus({100, 200, 204, 302, 400, 401, 403, 404}) /\ JustClassified)
          => (pc /= "sleep" /\ outcome.kind /= "Retryable")

====
